---- MODULE Spec2Model ----
(***************************************************************************)
(* Model of the generic CRUD layer of wheater_api: BaseRepository          *)
(* (modules/base/base.repository.ts) and BaseService                       *)
(* (modules/base/base.service.ts) over a TypeORM EntityManager bound to a  *)
(* MySQL table of User rows (BaseEntity columns id, createdAt, updatedAt,  *)
(* deletedAt plus the plain columns of User).                              *)
(*                                                                         *)
(* The repository methods are one-line calls of EntityManager methods, so  *)
(* the storage statements those calls issue are modelled here as the       *)
(* operators manager_find, manager_findOne, manager_save, manager_update,  *)
(* manager_softDelete and manager_restore:                                 *)
(*   - SELECTs (find, findOne) add "deleted_at IS NULL" unless the options *)
(*     say withDeleted;                                                    *)
(*   - UPDATE, soft-delete and restore statements carry the caller's WHERE *)
(*     only: they also reach rows that are soft-deleted, and `affected` is *)
(*     the number of rows the WHERE matched;                               *)
(*   - save() of an object that carries the id of a stored row updates     *)
(*     that row, otherwise it inserts.                                     *)
(*                                                                         *)
(* In Spec every handler is one atomic action (one request at a time) and  *)
(* `last` records the call that produced the current state and what it     *)
(* returned.  In SpecConcurrent two callers run findOrCreate and update     *)
(* statement by statement (`inflight`), the way two requests interleave at *)
(* the awaits of the handlers.                                             *)
(***************************************************************************)
EXTENDS Integers, FiniteSets, Sequences, TLC

VARIABLES
    store,   \* the rows of the entity's table (soft-deleted ones included)
    nextId,  \* the table's AUTO_INCREMENT counter
    now,     \* the database clock (CURRENT_TIMESTAMP)
    last,    \* the last call: its name, arguments and outcome
    inflight \* the calls that have started and not returned, per caller

vars == <<store, nextId, now, last, inflight>>

\* ----------------------------------------------------------------- bounds
MaxId == 1      \* identities are 1..MaxId
MaxTime == 1    \* clock readings are 1..MaxTime

\* ------------------------------------------------------------ data model
\* A column that holds NULL / an optional property that is undefined.
Null == 0

Ids == 1..MaxId
Times == 1..MaxTime
\* Values of the plain @Column() properties of User (email, password and
\* name are declared alike; one of them is kept).
Names == {"A", "B"}

\* BaseEntity + User: one stored row.
Row == [id : Ids, name : Names, createdAt : Times, updatedAt : Times,
        deletedAt : Times \cup {Null}]

\* FindOptionsWhere<Entity>: equality conditions on some properties.
Wheres == {[id |-> i] : i \in Ids} \cup {[name |-> n] : n \in Names}

\* QueryDeepPartialEntity<Entity>: the properties an update sets.  id and
\* deletedAt are properties of Entity like any other.
Patches ==
    {[name |-> n] : n \in Names} \cup {[id |-> i] : i \in Ids}
    \cup {[deletedAt |-> t] : t \in Times}

\* Entity objects handed to create: name is required by User, id and
\* deletedAt are optional properties of BaseEntity.
Datas ==
    {[name |-> n] : n \in Names}
    \cup {[id |-> i, name |-> n] : i \in Ids, n \in Names}
    \cup {[name |-> n, deletedAt |-> t] : n \in Names, t \in Times}

NoArg == [f \in {} |-> Null]

\* A row satisfies a where-object when it equals it on every property given.
Matches(r, where) == \A f \in DOMAIN where : r[f] = where[f]

\* SET (patch): the properties the patch gives replace the row's.
ApplyPatch(r, patch) ==
    [f \in DOMAIN r |-> IF f \in DOMAIN patch THEN patch[f] ELSE r[f]]

IdsOf(s) == {r.id : r \in s}

Max(a, b) == IF a >= b THEN a ELSE b

\* --------------------------------------------------- EntityManager calls
\* manager.find(entityClass, {where, withDeleted}): the matching rows; a
\* SELECT leaves soft-deleted rows out unless withDeleted is set.
\* Mutant: the SELECT does not add "deleted_at IS NULL".
manager_find_withDeleted(s, where, withDeleted) == {r \in s : Matches(r, where)}

manager_find(s, where, withDeleted) ==
    {r \in s : Matches(r, where) /\ (withDeleted \/ r.deletedAt = Null)}

\* manager.findOne(entityClass, options): one of the matching rows (the
\* statement has no ORDER BY), or null.  The value is a set: {} is null.
manager_findOne(s, where, withDeleted) ==
    IF manager_find(s, where, withDeleted) = {}
    THEN {{}}
    ELSE {{r} : r \in manager_find(s, where, withDeleted)}

\* The rows an UPDATE ... WHERE reaches: every row the where-object matches,
\* soft-deleted or not.
Targets(s, where) == {r \in s : Matches(r, where)}

\* manager.update(entityClass, where, data): SET data, updated_at =
\* CURRENT_TIMESTAMP unless data sets updatedAt itself.
UpdatedRows(s, where, data, t) ==
    (s \ Targets(s, where))
    \cup {ApplyPatch([r EXCEPT !.updatedAt = t], data) : r \in Targets(s, where)}

\* A statement that would leave two rows with one primary key fails as a
\* whole (duplicate entry) and changes nothing.
DuplicateKey(s, new) == Cardinality(IdsOf(new)) < Cardinality(s)

manager_update(s, where, data, t) ==
    IF DuplicateKey(s, UpdatedRows(s, where, data, t))
    THEN [error |-> TRUE, store |-> s, affected |-> 0]
    ELSE [error |-> FALSE, store |-> UpdatedRows(s, where, data, t),
          affected |-> Cardinality(Targets(s, where))]

\* manager.softDelete(entityClass, where): SET deleted_at = CURRENT_TIMESTAMP,
\* updated_at = CURRENT_TIMESTAMP on every row the where-object matches.
\* Mutant: the rows are removed (DELETE) instead of stamped.
manager_softDelete_hard(s, where, t) ==
    [store |-> s \ Targets(s, where), affected |-> Cardinality(Targets(s, where))]

\* Mutant: the statement adds "deleted_at IS NULL" to the caller's WHERE.
manager_softDelete_liveOnly(s, where, t) ==
    [store |-> (s \ manager_find(s, where, FALSE))
               \cup {[r EXCEPT !.deletedAt = t, !.updatedAt = t] :
                         r \in manager_find(s, where, FALSE)},
     affected |-> Cardinality(manager_find(s, where, FALSE))]

manager_softDelete(s, where, t) ==
    [store |-> (s \ Targets(s, where))
               \cup {[r EXCEPT !.deletedAt = t, !.updatedAt = t] : r \in Targets(s, where)},
     affected |-> Cardinality(Targets(s, where))]

\* manager.restore(entityClass, where): SET deleted_at = NULL, updated_at =
\* CURRENT_TIMESTAMP on every row the where-object matches.
\* Mutant: the statement refreshes updated_at but leaves deleted_at set.
manager_restore_keepsDeletedAt(s, where, t) ==
    [store |-> (s \ Targets(s, where))
               \cup {[r EXCEPT !.updatedAt = t] : r \in Targets(s, where)},
     affected |-> Cardinality(Targets(s, where))]

\* Mutant: the statement adds "deleted_at IS NOT NULL" to the caller's WHERE.
manager_restore_deletedOnly(s, where, t) ==
    [store |-> {IF Matches(r, where) /\ r.deletedAt # Null
                THEN [r EXCEPT !.deletedAt = Null, !.updatedAt = t]
                ELSE r : r \in s},
     affected |-> Cardinality({r \in s : Matches(r, where) /\ r.deletedAt # Null})]

manager_restore(s, where, t) ==
    [store |-> (s \ Targets(s, where))
               \cup {[r EXCEPT !.deletedAt = Null, !.updatedAt = t] : r \in Targets(s, where)},
     affected |-> Cardinality(Targets(s, where))]

\* manager.save(entityClass, data).  With the id of a stored row (looked up
\* with soft-deleted rows included) the row is updated with the properties
\* data gives, and updated_at refreshed when one of them differs; otherwise a
\* row is inserted: id from data or AUTO_INCREMENT, created_at and updated_at
\* DEFAULT CURRENT_TIMESTAMP(6), deleted_at from data or NULL.
SaveIsUpdate(s, data) == "id" \in DOMAIN data /\ data.id \in IdsOf(s)

SavedId(data, auto) == IF "id" \in DOMAIN data THEN data.id ELSE auto

InsertedRow(data, auto, t) ==
    [id |-> SavedId(data, auto), name |-> data.name, createdAt |-> t, updatedAt |-> t,
     deletedAt |-> IF "deletedAt" \in DOMAIN data THEN data.deletedAt ELSE Null]

SaveUpdatedRow(r, data, t) ==
    IF ApplyPatch(r, data) = r THEN r ELSE ApplyPatch([r EXCEPT !.updatedAt = t], data)

manager_save(s, data, auto, t) ==
    IF SaveIsUpdate(s, data)
    THEN [store |-> {IF r.id = data.id THEN SaveUpdatedRow(r, data, t) ELSE r : r \in s},
          id |-> data.id, inserted |-> FALSE]
    ELSE [store |-> s \cup {InsertedRow(data, auto, t)},
          id |-> SavedId(data, auto), inserted |-> TRUE]

\* ------------------------------------------------------- BaseRepository
\* What a call yields: how it ended, the entity or entities it returned
\* (rows; {} is null or an empty array), the number it returned or the
\* statement's `affected` (num), and the table and counter it leaves.
Outcome(outcome, rows, num, s, nid) ==
    [outcome |-> outcome, rows |-> rows, num |-> num, store |-> s, nextId |-> nid]

\* checkEntityExist(data: number | null | Entity): TRUE when it throws
\* EntityNotFound.  One operator per type of argument.
\* Mutant: the check tests `data === 0` only, so a null entity passes.
checkEntityExist_zeroOnly(rows) == FALSE

checkEntityExist_entity(rows) == rows = {}

checkEntityExist_affected(affected) == affected = 0

\* create(data): return await this.manager.save(this.entityClass, data)
BaseRepository_create(s, nid, data, t) ==
    LET saved == manager_save(s, data, nid, t)
    IN  {Outcome("ok", {r \in saved.store : r.id = saved.id}, 0, saved.store,
                 IF saved.inserted THEN Max(nid, saved.id + 1) ELSE nid)}

BaseRepository_find(s, nid, where, withDeleted) ==
    {Outcome("ok", manager_find(s, where, withDeleted), 0, s, nid)}

BaseRepository_findOne(s, nid, where, withDeleted) ==
    {Outcome("ok", entity, 0, s, nid) : entity \in manager_findOne(s, where, withDeleted)}

BaseRepository_findOneOrFail(s, nid, where, withDeleted) ==
    {IF checkEntityExist_entity(found.rows)
     THEN [found EXCEPT !.outcome = "EntityNotFound"]
     ELSE found : found \in BaseRepository_findOne(s, nid, where, withDeleted)}

\* findOrCreate: `const entity = this.findOne(where)` is not awaited, so
\* entity is a Promise object, which is truthy whatever it resolves to.
findOrCreate_entityIsTruthy == TRUE

BaseRepository_findOrCreate(s, nid, where, withDeleted, data, t) ==
    IF findOrCreate_entityIsTruthy
    THEN BaseRepository_findOne(s, nid, where, withDeleted)
    ELSE BaseRepository_create(s, nid, data, t)

\* update: the UPDATE statement, then a separate SELECT with the same where.
BaseRepository_update(s, nid, where, data, t) ==
    LET written == manager_update(s, where, data, t)
        counter == IF "id" \in DOMAIN data /\ written.affected > 0
                   THEN Max(nid, data.id + 1) ELSE nid
    IN  IF written.error
        THEN {Outcome("QueryFailedError", {}, 0, s, nid)}
        ELSE {Outcome("ok", entity, 0, written.store, counter) :
                  entity \in manager_findOne(written.store, where, FALSE)}

BaseRepository_updateOrFail(s, nid, where, data, t) ==
    {IF updated.outcome = "ok" /\ checkEntityExist_entity(updated.rows)
     THEN [updated EXCEPT !.outcome = "EntityNotFound"]
     ELSE updated : updated \in BaseRepository_update(s, nid, where, data, t)}

BaseRepository_softDelete(s, nid, where, t) ==
    {Outcome("ok", {}, manager_softDelete(s, where, t).affected,
             manager_softDelete(s, where, t).store, nid)}

BaseRepository_deleteOrFail(s, nid, where, t) ==
    {IF checkEntityExist_affected(deleted.num)
     THEN [deleted EXCEPT !.outcome = "EntityNotFound"]
     ELSE deleted : deleted \in BaseRepository_softDelete(s, nid, where, t)}

BaseRepository_restore(s, nid, where, t) ==
    {Outcome("ok", {}, manager_restore(s, where, t).affected,
             manager_restore(s, where, t).store, nid)}

BaseRepository_restoreOrFail(s, nid, where, t) ==
    {IF checkEntityExist_affected(restored.num)
     THEN [restored EXCEPT !.outcome = "EntityNotFound"]
     ELSE restored : restored \in BaseRepository_restore(s, nid, where, t)}

\* ---------------------------------------------------------- BaseService
\* create: `const { id } = await this.repository.create(data)`, then
\* findOne({ where: { id } }).
BaseService_create(s, nid, data, t) ==
    UNION {{Outcome("ok", entity, 0, created.store, created.nextId) :
                entity \in manager_findOne(created.store,
                                           [id |-> (CHOOSE r \in created.rows : TRUE).id],
                                           FALSE)} :
           created \in BaseRepository_create(s, nid, data, t)}

\* count: (await this.repository.find({ where: filter })).length
BaseService_count(s, nid, filter) ==
    {Outcome("ok", {}, Cardinality(total.rows), s, nid) :
         total \in BaseRepository_find(s, nid, filter, FALSE)}

\* -------------------------------------------------------------- actions
DeleteOps == {"deleteOrFail", "deleteById"}

RestoreOps == {"restoreOrFail", "restoreById"}

\* History: where a deleteOrFail / restoreOrFail call stands among the calls
\* on its where-object.
\*   "deleteVisible"       the where-object matched a record that default
\*                         lookups saw;
\*   "deleteAgain"         issued right after a "deleteVisible" call with the
\*                         same where-object;
\*   "restoreAfterDelete"  a restore issued right after such a call;
\*   "restoreLive"         a restore whose where-object matched a record
\*                         whose deletedAt was null.
CallCase(op, where) ==
    CASE op \in DeleteOps /\ (\E r \in store : Matches(r, where) /\ r.deletedAt = Null)
             -> "deleteVisible"
      [] op \in DeleteOps /\ last.case = "deleteVisible" /\ last.where = where
             -> "deleteAgain"
      [] op \in RestoreOps /\ last.case = "deleteVisible" /\ last.where = where
             -> "restoreAfterDelete"
      [] op \in RestoreOps /\ (\E r \in store : Matches(r, where) /\ r.deletedAt = Null)
             -> "restoreLive"
      [] OTHER -> "none"

\* The record kept of a call: its arguments, how it ended and what it
\* returned.
Call(op, where, withDeleted, data, result) ==
    [op |-> op, where |-> where, withDeleted |-> withDeleted, data |-> data,
     outcome |-> result.outcome, rows |-> result.rows, num |-> result.num,
     case |-> CallCase(op, where)]

\* A call that reads only: the clock is not consulted.
Read(op, where, withDeleted, data, results) ==
    \E result \in results :
        /\ last' = Call(op, where, withDeleted, data, result)
        /\ UNCHANGED <<store, nextId, now, inflight>>

\* A call whose statements take CURRENT_TIMESTAMP to be t.
Write(op, where, data, results, t) ==
    \E result \in results :
        /\ last' = Call(op, where, FALSE, data, result)
        /\ store' = result.store
        /\ nextId' = result.nextId
        /\ now' = t
        /\ UNCHANGED inflight

\* The clock readings a statement issued now or later can see.
Clock == {t \in Times : t = now \/ t = now + 1}

\* The callers whose requests can be in flight together.
Procs == {1, 2}

\* A caller with no call in flight.
Idle ==
    [op |-> "idle", pc |-> "idle", where |-> NoArg, data |-> NoArg,
     outcome |-> "none", rows |-> {}, absent |-> FALSE, applied |-> FALSE,
     afterWrite |-> {}, interleaved |-> FALSE]

Init ==
    /\ store = {}
    /\ nextId = 1
    /\ now = 1
    /\ last = [op |-> "init", where |-> NoArg, withDeleted |-> FALSE, data |-> NoArg,
               outcome |-> "ok", rows |-> {}, num |-> 0, case |-> "none"]
    /\ inflight = [p \in Procs |-> Idle]

Service_find ==
    \E where \in Wheres, withDeleted \in BOOLEAN :
        Read("find", where, withDeleted, NoArg,
             BaseRepository_find(store, nextId, where, withDeleted))

Service_findOne ==
    \E where \in Wheres, withDeleted \in BOOLEAN :
        Read("findOne", where, withDeleted, NoArg,
             BaseRepository_findOne(store, nextId, where, withDeleted))

Service_findOneOrFail ==
    \E where \in Wheres, withDeleted \in BOOLEAN :
        Read("findOneOrFail", where, withDeleted, NoArg,
             BaseRepository_findOneOrFail(store, nextId, where, withDeleted))

Service_findOneByIdOrFail ==
    \E id \in Ids :
        Read("findOneByIdOrFail", [id |-> id], FALSE, NoArg,
             BaseRepository_findOneOrFail(store, nextId, [id |-> id], FALSE))

Service_count ==
    \E filter \in Wheres :
        Read("count", filter, FALSE, NoArg, BaseService_count(store, nextId, filter))

Repository_findOrCreate ==
    \E where \in Wheres, data \in Datas, t \in Clock :
        /\ SavedId(data, nextId) \in Ids
        /\ Write("findOrCreate", where, data,
                 BaseRepository_findOrCreate(store, nextId, where, FALSE, data, t), t)

Repository_create ==
    \E data \in Datas, t \in Clock :
        /\ SavedId(data, nextId) \in Ids
        /\ Write("repository.create", NoArg, data,
                 BaseRepository_create(store, nextId, data, t), t)

Service_create ==
    \E data \in Datas, t \in Clock :
        /\ SavedId(data, nextId) \in Ids
        /\ Write("create", NoArg, data,
                 BaseService_create(store, nextId, data, t), t)

Repository_update ==
    \E where \in Wheres, data \in Patches, t \in Clock :
        Write("repository.update", where, data,
              BaseRepository_update(store, nextId, where, data, t), t)

Service_update ==
    \E where \in Wheres, data \in Patches, t \in Clock :
        Write("update", where, data,
              BaseRepository_updateOrFail(store, nextId, where, data, t), t)

Service_updateById ==
    \E id \in Ids, data \in Patches, t \in Clock :
        Write("updateById", [id |-> id], data,
              BaseRepository_updateOrFail(store, nextId, [id |-> id], data, t), t)

Repository_softDelete ==
    \E where \in Wheres, t \in Clock :
        Write("softDelete", where, NoArg,
              BaseRepository_softDelete(store, nextId, where, t), t)

Repository_deleteOrFail ==
    \E where \in Wheres, t \in Clock :
        Write("deleteOrFail", where, NoArg,
              BaseRepository_deleteOrFail(store, nextId, where, t), t)

Service_deleteById ==
    \E id \in Ids, t \in Clock :
        Write("deleteById", [id |-> id], NoArg,
              BaseRepository_deleteOrFail(store, nextId, [id |-> id], t), t)

Repository_restore ==
    \E where \in Wheres, t \in Clock :
        Write("restore", where, NoArg,
              BaseRepository_restore(store, nextId, where, t), t)

Repository_restoreOrFail ==
    \E where \in Wheres, t \in Clock :
        Write("restoreOrFail", where, NoArg,
              BaseRepository_restoreOrFail(store, nextId, where, t), t)

Service_restoreById ==
    \E id \in Ids, t \in Clock :
        Write("restoreById", [id |-> id], NoArg,
              BaseRepository_restoreOrFail(store, nextId, [id |-> id], t), t)

Next ==
    \/ Service_find
    \/ Service_findOne
    \/ Service_findOneOrFail
    \/ Service_findOneByIdOrFail
    \/ Service_count
    \/ Repository_findOrCreate
    \/ Repository_create
    \/ Service_create
    \/ Repository_update
    \/ Service_update
    \/ Service_updateById
    \/ Repository_softDelete
    \/ Repository_deleteOrFail
    \/ Service_deleteById
    \/ Repository_restore
    \/ Repository_restoreOrFail
    \/ Service_restoreById

Spec == Init /\ [][Next]_vars

TypeOK ==
    /\ store \subseteq Row
    /\ Cardinality(IdsOf(store)) = Cardinality(store)
    /\ nextId \in 1..(MaxId + 1)
    /\ \A r \in store : r.id < nextId
    /\ now \in Times

\* --------------------------------------------------------------- claims
\* The rows of the table a default lookup with this where-object can see.
VisibleMatches(s, where) == {r \in s : r.deletedAt = Null /\ Matches(r, where)}

FindOneOps == {"findOne", "findOneOrFail", "findOneByIdOrFail"}

\* C1: a default findOne whose filter matches no visible record (none at
\* all, or soft-deleted ones only) returns null without raising, and
\* findOneOrFail / findOneByIdOrFail raise EntityNotFound; when the filter
\* matches a visible record, each returns one such record and does not raise.
C1_FindOneContract ==
    (last.op \in FindOneOps /\ ~last.withDeleted) =>
        IF VisibleMatches(store, last.where) = {}
        THEN /\ last.rows = {}
             /\ last.outcome = (IF last.op = "findOne" THEN "ok" ELSE "EntityNotFound")
        ELSE /\ last.outcome = "ok"
             /\ \E r \in VisibleMatches(store, last.where) : last.rows = {r}

\* C1 witness: findOneOrFail raised on a filter that matches a soft-deleted
\* record only.
C1_Witness ==
    /\ last.op = "findOneOrFail"
    /\ ~last.withDeleted
    /\ last.outcome = "EntityNotFound"
    /\ \E r \in store : Matches(r, last.where) /\ r.deletedAt # Null

\* C2 (as claimed): deleteOrFail({id: i}) / deleteById(i) of a record that
\* default lookups see returns true and leaves i out of default find(); a
\* second such call on i, issued right after a successful one, raises
\* EntityNotFound.
C2_SecondDeleteRaises ==
    [][(last'.op \in DeleteOps /\ "id" \in DOMAIN last'.where) =>
          /\ VisibleMatches(store, last'.where) # {} =>
                /\ last'.outcome = "ok"
                /\ manager_find(store', last'.where, FALSE) = {}
          /\ last'.case = "deleteAgain" => last'.outcome = "EntityNotFound"]_vars

\* C2 (amended): deleteOrFail / deleteById returns true exactly when some
\* stored record, soft-deleted or not, matches where, and then default find()
\* has no match for where; in particular a second call issued right after a
\* successful one returns true again.  It raises EntityNotFound only when no
\* stored record matches, and then changes nothing.
C2_DeleteContract ==
    [][(last'.op \in DeleteOps) =>
          /\ last'.outcome = (IF Targets(store, last'.where) = {} THEN "EntityNotFound" ELSE "ok")
          /\ last'.outcome = "ok" => manager_find(store', last'.where, FALSE) = {}
          /\ last'.outcome = "EntityNotFound" => store' = store
          /\ last'.case = "deleteAgain" => last'.outcome = "ok"]_vars

\* C2 witness: a second deleteOrFail on the same identity has returned true.
C2_Witness ==
    /\ last.case = "deleteAgain"
    /\ "id" \in DOMAIN last.where
    /\ last.outcome = "ok"
    /\ \E r \in store : Matches(r, last.where) /\ r.deletedAt # Null

\* C3 (as claimed): restoreOrFail({id: i}) / restoreById(i) of a record whose
\* deletedAt is null raises EntityNotFound, and the call returns true only
\* when a matching record had a non-null deletedAt before it.
C3_RestoreOfLiveRecordRaises ==
    [][(last'.op \in RestoreOps) =>
          /\ ("id" \in DOMAIN last'.where /\ VisibleMatches(store, last'.where) # {}) =>
                last'.outcome = "EntityNotFound"
          /\ last'.outcome = "ok" =>
                \E r \in store : Matches(r, last'.where) /\ r.deletedAt # Null]_vars

\* C3 (amended): restoreOrFail / restoreById returns true exactly when some
\* stored record matches where, whatever its deletedAt, and leaves every
\* matching record with deletedAt null; on a record whose deletedAt is
\* already null it returns true.  It raises EntityNotFound only when no
\* stored record matches, and then changes nothing.
C3_RestoreContract ==
    [][(last'.op \in RestoreOps) =>
          /\ last'.outcome = (IF Targets(store, last'.where) = {} THEN "EntityNotFound" ELSE "ok")
          /\ last'.outcome = "ok" =>
                \A r \in Targets(store, last'.where) :
                    \E k \in store' : k.id = r.id /\ k.deletedAt = Null
          /\ last'.outcome = "EntityNotFound" => store' = store
          /\ last'.case = "restoreLive" => last'.outcome = "ok"]_vars

\* C3 witness: restoreOrFail on the identity of a record that was not
\* soft-deleted has returned true.
C3_Witness ==
    /\ last.case = "restoreLive"
    /\ "id" \in DOMAIN last.where
    /\ last.outcome = "ok"
    /\ VisibleMatches(store, last.where) # {}

\* C4: deleteById(i) / deleteOrFail of a record that default lookups see
\* returns true and keeps its id and name; restoreById(i) / restoreOrFail
\* issued right after it returns true and leaves the record with its id and
\* name, deletedAt null, and back in the default find() results.
C4_DeleteRestoreRoundTrip ==
    [][/\ last'.case = "deleteVisible" =>
            /\ last'.outcome = "ok"
            /\ \A r \in VisibleMatches(store, last'.where) :
                   \E d \in store' : d.id = r.id /\ d.name = r.name /\ d.deletedAt # Null
       /\ last'.case = "restoreAfterDelete" =>
            /\ last'.outcome = "ok"
            /\ \A d \in Targets(store, last'.where) :
                   \E r \in manager_find(store', NoArg, FALSE) :
                       r.id = d.id /\ r.name = d.name /\ r.deletedAt = Null
            /\ Targets(store, last'.where) # {}]_vars

\* C4 witness: restoreById(i) has just followed deleteById(i), and the
\* record is visible again.
C4_Witness ==
    /\ last.case = "restoreAfterDelete"
    /\ last.op = "restoreById"
    /\ last.outcome = "ok"
    /\ VisibleMatches(store, last.where) # {}

UpdateOps == {"update", "updateById"}

\* C5 (as claimed): Service update / updateById raises EntityNotFound when no
\* visible record matches where; when a visible record matches {id: i} it
\* returns the record with every patched property equal to the patch and
\* with updatedAt refreshed.  (The claim's "strictly greater" is stated here
\* as "not smaller", which it implies, so that no violation rests on two
\* statements reading the same CURRENT_TIMESTAMP.)
C5_UpdateContract ==
    [][(last'.op \in UpdateOps) =>
          /\ VisibleMatches(store, last'.where) = {} => last'.outcome = "EntityNotFound"
          /\ ("id" \in DOMAIN last'.where /\ VisibleMatches(store, last'.where) # {}) =>
                /\ last'.outcome = "ok"
                /\ \A r \in VisibleMatches(store, last'.where) :
                       \E u \in store' :
                           /\ last'.rows = {u}
                           /\ Matches(u, last'.data)
                           /\ u.updatedAt >= r.updatedAt]_vars

\* C6 (as claimed): Service create(E) returns a record, equal to E in id (when
\* E gives one) and name, with id, createdAt and updatedAt set and deletedAt
\* null; findOneByIdOrFail of its id returns it, and default find() holds it
\* exactly once.
C6_CreateThenFindById ==
    [][(last'.op = "create") =>
          /\ last'.outcome = "ok"
          /\ \E e \in store' :
                 /\ last'.rows = {e}
                 /\ \A f \in DOMAIN last'.data \cap {"id", "name"} : e[f] = last'.data[f]
                 /\ e.id # Null /\ e.createdAt # Null /\ e.updatedAt # Null
                 /\ e.deletedAt = Null
                 /\ \A found \in BaseRepository_findOneOrFail(store', nextId', [id |-> e.id], FALSE) :
                        found.outcome = "ok" /\ found.rows = {e}
                 /\ Cardinality({r \in manager_find(store', NoArg, FALSE) : r.id = e.id}) = 1]_vars

\* C7 (as claimed): findOrCreate(filter, data) returns a visible record that
\* matches filter and leaves the table alone when there is one; otherwise it
\* stores data as a new record and returns that record.
C7_FindOrCreate ==
    [][(last'.op = "findOrCreate") =>
          /\ last'.outcome = "ok"
          /\ IF VisibleMatches(store, last'.where) # {}
             THEN /\ \E r \in VisibleMatches(store, last'.where) : last'.rows = {r}
                  /\ store' = store
             ELSE \E r \in store' \ store :
                      last'.rows = {r} /\ r.name = last'.data.name]_vars

\* C8: default find / findOne / findOneOrFail / findOneByIdOrFail return
\* stored records whose deletedAt is null only, default find returns exactly
\* the visible matches, and count(filter) is the number of records
\* find({where: filter}) returns in the same state, soft-deleted ones not
\* counted.
C8_SoftDeletedExcluded ==
    /\ (last.op \in FindOneOps \cup {"find"} /\ ~last.withDeleted) =>
           \A r \in last.rows : r \in store /\ r.deletedAt = Null
    /\ (last.op = "find" /\ ~last.withDeleted) =>
           last.rows = VisibleMatches(store, last.where)
    /\ last.op = "count" =>
           /\ last.num = Cardinality(VisibleMatches(store, last.where))
           /\ \A found \in BaseRepository_find(store, nextId, last.where, FALSE) :
                  last.num = Cardinality(found.rows)

\* C8 witness: count has left out a soft-deleted record that matches its
\* filter.
C8_Witness ==
    /\ last.op = "count"
    /\ last.num = Cardinality(VisibleMatches(store, last.where))
    /\ \E r \in store : Matches(r, last.where) /\ r.deletedAt # Null

\* C9: no call makes the number of stored identities smaller; softDelete /
\* deleteOrFail / deleteById keep every record, with its id, name and
\* createdAt, set deletedAt on the records where matches and leave the others
\* as they were; restore / restoreOrFail / restoreById do the same and clear
\* deletedAt.
C9_NoPhysicalRemoval ==
    [][/\ Cardinality(IdsOf(store')) >= Cardinality(IdsOf(store))
       /\ last'.op \in DeleteOps \cup RestoreOps \cup {"softDelete", "restore"} =>
            \A r \in store :
                \E k \in store' :
                    /\ k.id = r.id /\ k.name = r.name /\ k.createdAt = r.createdAt
                    /\ IF ~Matches(r, last'.where) THEN k = r
                       ELSE IF last'.op \in DeleteOps \cup {"softDelete"}
                            THEN k.deletedAt # Null
                            ELSE k.deletedAt = Null]_vars

\* C9 witness: a soft delete has stamped a record, which is still stored.
C9_Witness ==
    /\ last.op \in DeleteOps \cup {"softDelete"}
    /\ last.num >= 1
    /\ \E r \in store : Matches(r, last.where) /\ r.deletedAt # Null

\* C10 (as claimed): a successful Repository create stores one more record,
\* returns it with an identity no stored record had, and leaves every record
\* stored before as it was.
C10_CreateAlwaysInserts ==
    [][(last'.op = "repository.create" /\ last'.outcome = "ok") =>
          /\ Cardinality(store') = Cardinality(store) + 1
          /\ store \subseteq store'
          /\ \E e \in store' \ store : last'.rows = {e} /\ e.id \notin IdsOf(store)]_vars

\* ------------------------------------------- patches with caller's values
\* The values of a patch are the caller's: QueryDeepPartialEntity<Entity>
\* takes any number for id and any Date for createdAt / updatedAt, also ones
\* the table has not handed out.  One value beyond the counter's and the
\* clock's range stands for them.
ClientIds == 1..(MaxId + 1)

ClientDates == 1..(MaxTime + 1)

ClientPatches ==
    Patches
    \cup {[id |-> i] : i \in ClientIds}
    \cup {[createdAt |-> d] : d \in ClientDates}
    \cup {[updatedAt |-> d] : d \in ClientDates}

\* BaseService.update with a patch of the caller's values.
Service_update_clientPatch ==
    \E where \in Wheres, data \in ClientPatches, t \in Clock :
        Write("update", where, data,
              BaseRepository_updateOrFail(store, nextId, where, data, t), t)

\* BaseService.updateById with a patch of the caller's values.
Service_updateById_clientPatch ==
    \E id \in ClientIds, data \in ClientPatches, t \in Clock :
        Write("updateById", [id |-> id], data,
              BaseRepository_updateOrFail(store, nextId, [id |-> id], data, t), t)

NextClientPatch ==
    \/ Service_create
    \/ Service_update_clientPatch
    \/ Service_updateById_clientPatch
    \/ Repository_update
    \/ Repository_softDelete
    \/ Repository_restore
    \/ Repository_findOrCreate

SpecClientPatch == Init /\ [][NextClientPatch]_vars

\* C11 (as claimed): in every step, every stored record is still stored with
\* the id and createdAt it had, and with an updatedAt not smaller than
\* before, whatever update / updateOrFail / updateById patch, softDelete,
\* restore or findOrCreate call the step is.
C11_IdentityAndCreatedAtKept ==
    [][\A r \in store :
          \E k \in store' :
              /\ k.id = r.id
              /\ k.createdAt = r.createdAt
              /\ k.updatedAt >= r.updatedAt]_vars

\* The calls that raise EntityNotFound through checkEntityExist.
OrFailOps ==
    {"findOneOrFail", "findOneByIdOrFail"} \cup UpdateOps \cup DeleteOps \cup RestoreOps

\* C12 (as claimed): when findOneOrFail, updateOrFail (Service update /
\* updateById), deleteOrFail or restoreOrFail raises EntityNotFound, the
\* table after the call is the table before it, also when the patch of an
\* update changes a property its where-object tests.
C12_FailureIsAtomic ==
    [][(last'.op \in OrFailOps /\ last'.outcome = "EntityNotFound") =>
          store' = store]_vars

\* ----------------------------------------------- two callers, interleaved
\* A handler runs to its next await; the statement it awaits executes some
\* time later, other callers' statements in between.

\* findOrCreate(where, data) is called: findOne(where) is started and the
\* call waits for the one statement BaseRepository_findOrCreate goes on to.
findOrCreate_call(p) ==
    \E n \in Names :
        /\ inflight[p].pc = "idle"
        /\ inflight' = [inflight EXCEPT ![p] =
               [Idle EXCEPT !.op = "findOrCreate", !.pc = "awaiting",
                            !.where = [name |-> n], !.data = [name |-> n]]]
        /\ UNCHANGED <<store, nextId, now, last>>

\* The statement of a findOrCreate call executes and the call returns.
\* `absent` says that no visible record matched where at that moment.
findOrCreate_return(p) ==
    \E t \in Clock :
        \E result \in BaseRepository_findOrCreate(store, nextId, inflight[p].where,
                                                  FALSE, inflight[p].data, t) :
            /\ inflight[p].op = "findOrCreate"
            /\ inflight[p].pc = "awaiting"
            /\ inflight' = [inflight EXCEPT ![p] =
                   [@ EXCEPT !.pc = "returned", !.outcome = result.outcome,
                             !.rows = result.rows,
                             !.absent = (manager_find(store, inflight[p].where, FALSE) = {})]]
            /\ store' = result.store
            /\ nextId' = result.nextId
            /\ now' = t
            /\ UNCHANGED last

\* update(where, data) is called: `await this.manager.update(...)`, the
\* UPDATE statement.  A failed statement ends the call.
update_write(p) ==
    \E where \in {[id |-> i] : i \in Ids}, data \in Patches, t \in Clock :
        LET written == manager_update(store, where, data, t)
        IN  /\ inflight[p].pc = "idle"
            /\ inflight' = [inflight EXCEPT ![p] =
                   [Idle EXCEPT !.op = "update", !.where = where, !.data = data,
                                !.pc = IF written.error THEN "returned" ELSE "reread",
                                !.outcome = IF written.error THEN "QueryFailedError"
                                            ELSE "none",
                                !.applied = written.affected > 0,
                                !.afterWrite = written.store]]
            /\ store' = written.store
            /\ nextId' = IF "id" \in DOMAIN data /\ written.affected > 0
                         THEN Max(nextId, data.id + 1) ELSE nextId
            /\ now' = t
            /\ UNCHANGED last

\* `return await this.manager.findOne(entityClass, {where, relations})`, the
\* separate SELECT, then updateOrFail's checkEntityExist.  `interleaved` says
\* that the table is not as this call's UPDATE left it.
update_reread(p) ==
    \E entity \in manager_findOne(store, inflight[p].where, FALSE) :
        /\ inflight[p].op = "update"
        /\ inflight[p].pc = "reread"
        /\ inflight' = [inflight EXCEPT ![p] =
               [@ EXCEPT !.pc = "returned", !.rows = entity,
                         !.outcome = IF checkEntityExist_entity(entity)
                                     THEN "EntityNotFound" ELSE "ok",
                         !.interleaved = (store # inflight[p].afterWrite)]]
        /\ UNCHANGED <<store, nextId, now, last>>

NextConcurrent ==
    \/ \E p \in Procs : findOrCreate_call(p)
    \/ \E p \in Procs : findOrCreate_return(p)
    \/ \E p \in Procs : update_write(p)
    \/ \E p \in Procs : update_reread(p)
    \/ Service_create
    \/ Repository_softDelete

SpecConcurrent == Init /\ [][NextConcurrent]_vars

\* C13 (as claimed): when two findOrCreate(filter, data) calls are in flight
\* together on one filter and each of them meets no visible record for it,
\* both create, and two stored records match the filter once both have
\* returned.
C13_RacingCallsBothCreate ==
    (/\ \A p \in Procs :
            /\ inflight[p].op = "findOrCreate"
            /\ inflight[p].pc = "returned"
            /\ inflight[p].absent
     /\ inflight[1].where = inflight[2].where)
    => /\ Cardinality(Targets(store, inflight[1].where)) >= 2
       /\ \A p \in Procs : inflight[p].rows # {}

\* (a) of C14: the call returned a record on which a patched property does
\* not have the patch's value.
ReturnedUnpatched(call) ==
    call.outcome = "ok" /\ \E u \in call.rows : ~Matches(u, call.data)

\* (b) of C14: the call raised EntityNotFound although its UPDATE statement
\* patched a stored row.
RaisedAfterPatching(call) ==
    call.outcome = "EntityNotFound" /\ call.applied

\* C14 (as claimed): an update / updateOrFail call with a where-object on id
\* only, whose re-read met the table as its own UPDATE left it (no other
\* operation in between), neither returns a record that differs from the
\* patch on a patched property nor raises EntityNotFound after having
\* patched the row.
C14_NoAnomalyWithoutInterleaving ==
    \A p \in Procs :
        (/\ inflight[p].op = "update"
         /\ inflight[p].pc = "returned"
         /\ DOMAIN inflight[p].where = {"id"}
         /\ ~inflight[p].interleaved)
        => /\ ~ReturnedUnpatched(inflight[p])
           /\ ~RaisedAfterPatching(inflight[p])

====
